---- MODULE Spec2Model ----
(***************************************************************************)
(* Model of the simulation core of finance-stress-simulator:               *)
(*   backend/app/domain/scenarios.py   scenario catalog and parameters     *)
(*   backend/app/domain/simulator.py   month-by-month cash-flow engine     *)
(*   backend/app/domain/levers.py      lever (intervention) search         *)
(*                                                                         *)
(* Numbers.  Python floats are modelled as exact rationals <<n, d>> with   *)
(* d > 0 and gcd(|n|, d) = 1, so that equal numbers are equal tuples.      *)
(* IEEE-754 rounding of the last bit is not modelled: a comparison of two  *)
(* floats that are equal as rationals can go either way in the program     *)
(* (1.6 - 1.5 > 0.1 is true in doubles).  round(x, 2) is modelled as       *)
(* round-half-even to two decimals.                                        *)
(*                                                                         *)
(* Dictionaries are functions from a set of key strings to values; the     *)
(* registry's dictionaries live in a heap of objects addressed by          *)
(* identifiers, so that aliasing between the catalog and a caller's        *)
(* reference is visible.                                                   *)
(***************************************************************************)
EXTENDS Integers, Sequences, FiniteSets, TLC

\* ------------------------------------------------------------------------
\* Bounds of the model
\* ------------------------------------------------------------------------
MaxHorizon == 4
MaxWrites == 1
MaxRunway == 8

\* ------------------------------------------------------------------------
\* Exact rational arithmetic
\*
\* An operator that uses an argument more than once binds it first
\* (x \in {argument}), so that the argument is evaluated once.
\* ------------------------------------------------------------------------
Abs(n) == IF n < 0 THEN -n ELSE n

RECURSIVE GCD(_, _)
GCD(x, y) ==
    CHOOSE r \in { IF b = 0 THEN a ELSE GCD(b, a % b) : a \in {x}, b \in {y} } : TRUE

Norm(x, y) ==
    CHOOSE r \in { <<n \div g, d \div g>> : n \in {x}, d \in {y}, g \in {GCD(Abs(x), y)} } : TRUE

R(n) == <<n, 1>>

Frac(n, d) == Norm(n, d)

RNeg(x) == CHOOSE r \in { <<-a[1], a[2]>> : a \in {x} } : TRUE

RAdd(x, y) ==
    CHOOSE r \in
        { LET g == GCD(a[2], b[2])
          IN  Norm(a[1] * (b[2] \div g) + b[1] * (a[2] \div g), (a[2] \div g) * b[2])
          : a \in {x}, b \in {y} } : TRUE

RSub(a, b) == RAdd(a, RNeg(b))

RMul(x, y) ==
    CHOOSE r \in
        { LET g1 == GCD(Abs(a[1]), b[2])
              g2 == GCD(Abs(b[1]), a[2])
          IN  <<(a[1] \div g1) * (b[1] \div g2), (a[2] \div g2) * (b[2] \div g1)>>
          : a \in {x}, b \in {y} } : TRUE

RRecip(x) ==
    CHOOSE r \in { IF a[1] > 0 THEN <<a[2], a[1]>> ELSE <<-a[2], -a[1]>> : a \in {x} } : TRUE

RDiv(a, b) == RMul(a, RRecip(b))

RLt(a, b) == RSub(a, b)[1] < 0

RLe(a, b) == RSub(a, b)[1] <= 0

RMinOf(x, y) == CHOOSE r \in { IF RLt(b, a) THEN b ELSE a : a \in {x}, b \in {y} } : TRUE

RECURSIVE RPow(_, _)
RPow(x, m) ==
    CHOOSE r \in { IF m = 0 THEN R(1) ELSE RMul(a, RPow(a, m - 1)) : a \in {x} } : TRUE

RFloor(x) == CHOOSE r \in { a[1] \div a[2] : a \in {x} } : TRUE

\* Variant: the digits after the second decimal are cut off
Round2_Down(x) ==
    CHOOSE v \in { Norm(s[1] \div s[2], 100) : s \in {RMul(x, R(100))} } : TRUE

\* round(x, 2)
Round2(x) ==
    CHOOSE v \in
        { LET q == s[1] \div s[2]
              r == s[1] % s[2]
              k == IF 2 * r < s[2] THEN q
                   ELSE IF 2 * r > s[2] THEN q + 1
                   ELSE IF q % 2 = 0 THEN q ELSE q + 1
          IN  Norm(k, 100)
          : s \in {RMul(x, R(100))} } : TRUE

\* dict.get(key, default)
Get(params, key, default) ==
    IF key \in DOMAIN params THEN params[key] ELSE default

\* ------------------------------------------------------------------------
\* simulator.py
\* ------------------------------------------------------------------------
\* breach_month = None
None == 0

IncomeKinds == {"job_loss", "income_cut_20", "income_cut_40"}

\* Variant: the multiplier applies only after start_month
_calculate_income_Late(inp, month, scenario_type, params) ==
    IF scenario_type \in IncomeKinds
       /\ RLt(Get(params, "start_month", R(1)), R(month))
    THEN RMul(inp.monthly_income_takehome, Get(params, "income_multiplier", R(1)))
    ELSE inp.monthly_income_takehome

\* Variant: the multiplier applies under every scenario type
_calculate_income_AnyKind(inp, month, scenario_type, params) ==
    IF RLe(Get(params, "start_month", R(1)), R(month))
    THEN RMul(inp.monthly_income_takehome, Get(params, "income_multiplier", R(1)))
    ELSE inp.monthly_income_takehome

_calculate_income(inp, month, scenario_type, params) ==
    IF scenario_type \in IncomeKinds
       /\ RLe(Get(params, "start_month", R(1)), R(month))
    THEN RMul(inp.monthly_income_takehome, Get(params, "income_multiplier", R(1)))
    ELSE inp.monthly_income_takehome

\* Variant: the compounding starts one month late, (1 + rate) ** (month - 1)
_calculate_expenses_Late(inp, month, scenario_type, params) ==
    CHOOSE r \in
        { RAdd(e2, inp.discretionary_total) :
            e2 \in { IF scenario_type = "inflation_spike"
                     THEN RMul(e1, RPow(RAdd(R(1), Get(params, "monthly_increase_rate",
                                                       Frac(5, 1200))), month - 1))
                     ELSE e1 :
                e1 \in { IF scenario_type = "rent_increase"
                            /\ RLe(Get(params, "start_month", R(1)), R(month))
                         THEN LET housing_portion == RMul(inp.essential_total, Frac(35, 100))
                                  housing_increase ==
                                      RMul(housing_portion,
                                           Get(params, "increase_percent", Frac(15, 100)))
                              IN  RAdd(inp.essential_total, housing_increase)
                         ELSE inp.essential_total } } } : TRUE

_calculate_expenses(inp, month, scenario_type, params) ==
    CHOOSE r \in
        { RAdd(e2, inp.discretionary_total) :
            e2 \in { IF scenario_type = "inflation_spike"
                     THEN RMul(e1, RPow(RAdd(R(1), Get(params, "monthly_increase_rate",
                                                       Frac(5, 1200))), month))
                     ELSE e1 :
                e1 \in { IF scenario_type = "rent_increase"
                            /\ RLe(Get(params, "start_month", R(1)), R(month))
                         THEN LET housing_portion == RMul(inp.essential_total, Frac(35, 100))
                                  housing_increase ==
                                      RMul(housing_portion,
                                           Get(params, "increase_percent", Frac(15, 100)))
                              IN  RAdd(inp.essential_total, housing_increase)
                         ELSE inp.essential_total } } } : TRUE

\* Variant: the amount is charged in every month from "month" on
_calculate_one_time_shock_From(month, scenario_type, params) ==
    IF scenario_type = "one_time_emergency"
       /\ RLe(Get(params, "month", R(1)), R(month))
    THEN Get(params, "amount", R(1500))
    ELSE R(0)

_calculate_one_time_shock(month, scenario_type, params) ==
    IF scenario_type = "one_time_emergency"
       /\ R(month) = Get(params, "month", R(1))
    THEN Get(params, "amount", R(1500))
    ELSE R(0)

\* balance_series is a Python list indexed from 0; the model's sequence is
\* indexed from 1, so Python's balance_series[i] is At(balance_series, i).
At(s, i) == s[i + 1]

\* Variant: a series that never crosses reports len(balance_series)
RECURSIVE RunwayScan_Len(_, _, _)
RunwayScan_Len(series, i, horizon) ==
    CHOOSE r \in
        { IF i >= Len(balance_series) - 1
          THEN IF RLe(R(0), At(balance_series, Len(balance_series) - 1))
               THEN R(Len(balance_series))
               ELSE R(0)
          ELSE LET curr_balance == At(balance_series, i)
                   next_balance == At(balance_series, i + 1)
                   decline == RSub(curr_balance, next_balance)
               IN  IF RLe(R(0), curr_balance) /\ RLt(next_balance, R(0)) /\ RLt(R(0), decline)
                   THEN RAdd(R(i), RDiv(curr_balance, decline))
                   ELSE RunwayScan_Len(balance_series, i + 1, horizon)
          : balance_series \in {series} } : TRUE

\* The loop of _calculate_runway from index i on, and what follows it
RECURSIVE RunwayScan(_, _, _)
RunwayScan(series, i, horizon) ==
    CHOOSE r \in
        { IF i >= Len(balance_series) - 1
          THEN IF RLe(R(0), At(balance_series, Len(balance_series) - 1))
               THEN R(horizon)
               ELSE R(0)
          ELSE LET curr_balance == At(balance_series, i)
                   next_balance == At(balance_series, i + 1)
                   decline == RSub(curr_balance, next_balance)
               IN  IF RLe(R(0), curr_balance) /\ RLt(next_balance, R(0)) /\ RLt(R(0), decline)
                   THEN RAdd(R(i), RDiv(curr_balance, decline))
                   ELSE RunwayScan(balance_series, i + 1, horizon)
          : balance_series \in {series} } : TRUE

\* Variant: the scan runs from the end, so the last crossing is used
RECURSIVE RunwayScan_Last(_, _, _)
RunwayScan_Last(series, i, horizon) ==
    CHOOSE r \in
        { IF i < 0
          THEN IF RLe(R(0), At(balance_series, Len(balance_series) - 1))
               THEN R(horizon)
               ELSE R(0)
          ELSE LET curr_balance == At(balance_series, i)
                   next_balance == At(balance_series, i + 1)
                   decline == RSub(curr_balance, next_balance)
               IN  IF RLe(R(0), curr_balance) /\ RLt(next_balance, R(0)) /\ RLt(R(0), decline)
                   THEN RAdd(R(i), RDiv(curr_balance, decline))
                   ELSE RunwayScan_Last(balance_series, i - 1, horizon)
          : balance_series \in {series} } : TRUE

_calculate_runway_Last(series, horizon) ==
    CHOOSE r \in { RunwayScan_Last(balance_series, Len(balance_series) - 2, horizon)
                   : balance_series \in {series} } : TRUE

_calculate_runway(balance_series, horizon) == RunwayScan(balance_series, 0, horizon)

\* min(balance_series)
RECURSIVE SeqMin(_)
SeqMin(series) ==
    CHOOSE r \in { IF Len(s) = 1 THEN s[1] ELSE RMinOf(s[1], SeqMin(Tail(s)))
                   : s \in {series} } : TRUE

\* Variant: the one-time shock is not charged
MonthStep_NoShock(inp, scenario_type, params, st, month) ==
    CHOOSE r \in
        { [balance |-> balance,
           balance_series |-> Append(st.balance_series, balance),
           breach_month |-> IF st.breach_month = None /\ RLt(balance, R(0))
                            THEN month ELSE st.breach_month]
          : balance \in
              { LET income == _calculate_income(inp, month, scenario_type, params)
                    expenses == _calculate_expenses(inp, month, scenario_type, params)
                IN  RSub(RAdd(st.balance, income), expenses) } } : TRUE

\* Variant: every month with a negative balance overwrites breach_month
MonthStep_Overwrite(inp, scenario_type, params, st, month) ==
    CHOOSE r \in
        { [balance |-> balance,
           balance_series |-> Append(st.balance_series, balance),
           breach_month |-> IF RLt(balance, R(0)) THEN month ELSE st.breach_month]
          : balance \in
              { LET income == _calculate_income(inp, month, scenario_type, params)
                    expenses == _calculate_expenses(inp, month, scenario_type, params)
                    one_time_shock == _calculate_one_time_shock(month, scenario_type, params)
                IN  RSub(RSub(RAdd(st.balance, income), expenses), one_time_shock) } } : TRUE

\* Variant: a balance of exactly zero counts as a breach
MonthStep_BreachAtZero(inp, scenario_type, params, st, month) ==
    CHOOSE r \in
        { [balance |-> balance,
           balance_series |-> Append(st.balance_series, balance),
           breach_month |-> IF st.breach_month = None /\ RLe(balance, R(0))
                            THEN month ELSE st.breach_month]
          : balance \in
              { LET income == _calculate_income(inp, month, scenario_type, params)
                    expenses == _calculate_expenses(inp, month, scenario_type, params)
                    one_time_shock == _calculate_one_time_shock(month, scenario_type, params)
                IN  RSub(RSub(RAdd(st.balance, income), expenses), one_time_shock) } } : TRUE

\* One iteration of the month loop of simulate, on the loop state
\* [balance, balance_series, breach_month].
MonthStep(inp, scenario_type, params, st, month) ==
    CHOOSE r \in
        { [balance |-> balance,
           balance_series |-> Append(st.balance_series, balance),
           breach_month |-> IF st.breach_month = None /\ RLt(balance, R(0))
                            THEN month ELSE st.breach_month]
          : balance \in
              { LET income == _calculate_income(inp, month, scenario_type, params)
                    expenses == _calculate_expenses(inp, month, scenario_type, params)
                    one_time_shock == _calculate_one_time_shock(month, scenario_type, params)
                IN  RSub(RSub(RAdd(st.balance, income), expenses), one_time_shock) } } : TRUE

\* for month in range(1, self.horizon + 1), from month on
RECURSIVE MonthLoop(_, _, _, _, _)
MonthLoop(inp, scenario_type, params, state, month) ==
    CHOOSE r \in
        { IF month > inp.horizon_months THEN st
          ELSE MonthLoop(inp, scenario_type, params,
                         MonthStep(inp, scenario_type, params, st, month), month + 1)
          : st \in {state} } : TRUE

simulate(input_data, scenario_type, scenario_params) ==
    CHOOSE r \in
        { [runway_months |-> _calculate_runway(fin.balance_series, inp.horizon_months),
           breach_month |-> fin.breach_month,
           balance_series |-> fin.balance_series,
           min_balance |-> SeqMin(fin.balance_series),
           ending_balance |-> At(fin.balance_series, Len(fin.balance_series) - 1)]
          : fin \in { MonthLoop(inp, scenario_type, params,
                                [balance |-> inp.emergency_fund_balance,
                                 balance_series |-> <<inp.emergency_fund_balance>>,
                                 breach_month |-> None], 1)
                      : inp \in {input_data}, params \in {scenario_params} },
            inp \in {input_data} } : TRUE

\* Variant: a runway of exactly 2 months is still high risk
calculate_risk_level_Le(runway_months, monthly_expenses) ==
    IF RLe(runway_months, R(2)) THEN "high"
    ELSE IF RLt(runway_months, R(6)) THEN "medium"
    ELSE "low"

calculate_risk_level(runway_months, monthly_expenses) ==
    IF RLt(runway_months, R(2)) THEN "high"
    ELSE IF RLt(runway_months, R(6)) THEN "medium"
    ELSE "low"

\* ------------------------------------------------------------------------
\* levers.py
\* ------------------------------------------------------------------------
Min(a, b) == IF a < b THEN a ELSE b

\* Variant: the candidate is kept whatever its delta
Candidate_NoFilter(modified_input, scenario_type, scenario_params, base_runway, label, category) ==
    CHOOSE r \in UNION
        { { << [label |-> label,
                new_runway_months |-> Round2(result.runway_months),
                delta_months |-> Round2(delta),
                impact_category |-> category] >>
            : delta \in {RSub(result.runway_months, base_runway)} }
          : result \in {simulate(modified_input, scenario_type, scenario_params)} } : TRUE

\* One candidate of calculate_levers: simulate the modified input and keep
\* the lever when its delta exceeds 0.1.  The description text is omitted.
Candidate(modified_input, scenario_type, scenario_params, base_runway, label, category) ==
    CHOOSE r \in UNION
        { { IF RLt(Frac(1, 10), delta)
            THEN << [label |-> label,
                     new_runway_months |-> Round2(result.runway_months),
                     delta_months |-> Round2(delta),
                     impact_category |-> category] >>
            ELSE << >>
            : delta \in {RSub(result.runway_months, base_runway)} }
          : result \in {simulate(modified_input, scenario_type, scenario_params)} } : TRUE

\* levers.sort(key=lambda x: x["delta_months"], reverse=True): stable,
\* entries with equal keys keep their order.
RECURSIVE InsertDesc(_, _)
InsertDesc(list, lever) ==
    CHOOSE r \in
        { IF sorted = << >> THEN <<x>>
          ELSE IF RLt(Head(sorted).delta_months, x.delta_months)
               THEN <<x>> \o sorted
               ELSE <<Head(sorted)>> \o InsertDesc(Tail(sorted), x)
          : sorted \in {list}, x \in {lever} } : TRUE

\* Variant: the list is not sorted
SortDesc_None(levers) == levers

RECURSIVE SortDesc(_)
SortDesc(list) ==
    CHOOSE r \in
        { IF levers = << >> THEN << >>
          ELSE InsertDesc(SortDesc(SubSeq(levers, 1, Len(levers) - 1)), levers[Len(levers)])
          : levers \in {list} } : TRUE

\* levers[:3]
Top3(list) == CHOOSE r \in { SubSeq(levers, 1, Min(3, Len(levers))) : levers \in {list} } : TRUE

Lever1(base_input, scenario_type, scenario_params, base_runway) ==
    IF RLt(R(0), base_input.discretionary_total)
    THEN Candidate([base_input EXCEPT !.discretionary_total = RMul(@, Frac(7, 10))],
                   scenario_type, scenario_params, base_runway,
                   "Cut discretionary spending by 30%", "expense_reduction")
    ELSE << >>

Lever2(base_input, scenario_type, scenario_params, base_runway) ==
    IF RLt(R(0), base_input.discretionary_total)
    THEN Candidate([base_input EXCEPT !.discretionary_total = RMul(@, Frac(5, 10))],
                   scenario_type, scenario_params, base_runway,
                   "Cut discretionary spending by 50%", "expense_reduction")
    ELSE << >>

Lever3(base_input, scenario_type, scenario_params, base_runway) ==
    LET housing_savings == RMinOf(R(300), RMul(base_input.essential_total, Frac(15, 100)))
    IN  IF RLt(R(100), housing_savings)
        THEN Candidate([base_input EXCEPT !.essential_total = RSub(@, housing_savings)],
                       scenario_type, scenario_params, base_runway,
                       "Reduce housing costs", "expense_reduction")
        ELSE << >>

\* Variant: the side-income candidate is generated for every scenario type
Lever4_AnyKind(base_input, scenario_type, scenario_params, base_runway) ==
    LET side_income == R(400)
    IN  Candidate([base_input EXCEPT !.monthly_income_takehome = RAdd(@, side_income)],
                  scenario_type, scenario_params, base_runway,
                  "Add side income", "income_increase")

Lever4(base_input, scenario_type, scenario_params, base_runway) ==
    IF scenario_type \in {"job_loss", "income_cut_20", "income_cut_40"}
    THEN LET side_income == R(400)
         IN  Candidate([base_input EXCEPT !.monthly_income_takehome = RAdd(@, side_income)],
                       scenario_type, scenario_params, base_runway,
                       "Add side income", "income_increase")
    ELSE << >>

\* Only evaluated when essential_total + discretionary_total is not zero.
Lever5(base_input, scenario_type, scenario_params, base_runway) ==
    LET total == RAdd(base_input.essential_total, base_input.discretionary_total)
        months_of_expenses == RDiv(base_input.emergency_fund_balance, total)
    IN  IF RLt(months_of_expenses, R(3))
        THEN LET target_fund == RMul(total, R(3))
             IN  Candidate([base_input EXCEPT !.emergency_fund_balance = target_fund],
                           scenario_type, scenario_params, base_runway,
                           "Build emergency fund to 3 months expenses", "emergency_fund")
        ELSE << >>

\* The modified_input of the candidate with the given label
ModifiedInput(base_input, label) ==
    CASE label = "Cut discretionary spending by 30%" ->
            [base_input EXCEPT !.discretionary_total = RMul(@, Frac(7, 10))]
      [] label = "Cut discretionary spending by 50%" ->
            [base_input EXCEPT !.discretionary_total = RMul(@, Frac(5, 10))]
      [] label = "Reduce housing costs" ->
            [base_input EXCEPT !.essential_total =
                RSub(@, RMinOf(R(300), RMul(base_input.essential_total, Frac(15, 100))))]
      [] label = "Add side income" ->
            [base_input EXCEPT !.monthly_income_takehome = RAdd(@, R(400))]
      [] label = "Build emergency fund to 3 months expenses" ->
            [base_input EXCEPT !.emergency_fund_balance =
                RMul(RAdd(base_input.essential_total, base_input.discretionary_total), R(3))]

\* The call either returns a list or raises: months_of_expenses divides by
\* essential_total + discretionary_total (levers.py line 128).
calculate_levers(base_input, scenario_type, scenario_params, base_runway) ==
    IF RAdd(base_input.essential_total, base_input.discretionary_total) = R(0)
    THEN [raised |-> "ZeroDivisionError", levers |-> << >>]
    ELSE LET levers == Lever1(base_input, scenario_type, scenario_params, base_runway)
                       \o Lever2(base_input, scenario_type, scenario_params, base_runway)
                       \o Lever3(base_input, scenario_type, scenario_params, base_runway)
                       \o Lever4(base_input, scenario_type, scenario_params, base_runway)
                       \o Lever5(base_input, scenario_type, scenario_params, base_runway)
         IN  [raised |-> "", levers |-> Top3(SortDesc(levers))]

\* ------------------------------------------------------------------------
\* scenarios.py
\* ------------------------------------------------------------------------
EmptyDict == << >>

\* Variant: keys already present keep their value
Update_KeepOld(d, other) ==
    [k \in (DOMAIN d) \cup (DOMAIN other) |-> IF k \in DOMAIN d THEN d[k] ELSE other[k]]

\* dict.update(other) on a copy: keys of other replace or extend those of d
Update(d, other) ==
    [k \in (DOMAIN d) \cup (DOMAIN other) |-> IF k \in DOMAIN other THEN other[k] ELSE d[k]]

\* The six default_params dictionaries are the heap objects 1..6, in the
\* order of DEFAULT_SCENARIOS.
InitialHeap ==
    << ("start_month" :> R(1)) @@ ("income_multiplier" :> R(0)),
       ("start_month" :> R(1)) @@ ("income_multiplier" :> Frac(8, 10)),
       ("start_month" :> R(1)) @@ ("income_multiplier" :> Frac(6, 10)),
       ("start_month" :> R(1)) @@ ("increase_percent" :> Frac(15, 100)),
       ("month" :> R(1)) @@ ("amount" :> R(1500)),
       ("monthly_increase_rate" :> Frac(5, 1200)) >>

ScenarioType ==
    << "job_loss", "income_cut_20", "income_cut_40",
       "rent_increase", "one_time_emergency", "inflation_spike" >>

InitialScenarios ==
    << [type |-> "job_loss", name |-> "Job Loss", default_params |-> 1],
       [type |-> "income_cut_20", name |-> "20% Income Reduction", default_params |-> 2],
       [type |-> "income_cut_40", name |-> "40% Income Reduction", default_params |-> 3],
       [type |-> "rent_increase", name |-> "Rent/Housing Increase", default_params |-> 4],
       [type |-> "one_time_emergency", name |-> "Emergency Expense", default_params |-> 5],
       [type |-> "inflation_spike", name |-> "Inflation Spike", default_params |-> 6] >>

\* Variant: an unknown type falls back to the first definition
RECURSIVE FindScenario_Fallback(_, _, _)
FindScenario_Fallback(scenarios, scenario_type, i) ==
    IF i > Len(scenarios) THEN 1
    ELSE IF scenarios[i].type = scenario_type THEN i
    ELSE FindScenario_Fallback(scenarios, scenario_type, i + 1)

\* next((s for s in DEFAULT_SCENARIOS if s.type.value == scenario_type), None):
\* the index of the first matching definition, 0 when there is none
RECURSIVE FindScenario(_, _, _)
FindScenario(scenarios, scenario_type, i) ==
    IF i > Len(scenarios) THEN 0
    ELSE IF scenarios[i].type = scenario_type THEN i
    ELSE FindScenario(scenarios, scenario_type, i + 1)

\* custom_params is << >> for None and <<d>> for a dictionary d;
\* "if custom_params:" is false for None and for the empty dictionary.
Truthy(custom_params) == custom_params # << >> /\ DOMAIN custom_params[1] # {}

\* Variant: without .copy() the stored dictionary itself is updated and
\* returned
get_scenario_params_NoCopy(scenarios, objs, scenario_type, custom_params) ==
    LET i == FindScenario(scenarios, scenario_type, 1)
    IN  IF i = 0
        THEN [raised |-> "ValueError", ret |-> 0, heap |-> objs]
        ELSE LET id == scenarios[i].default_params
                 params == IF Truthy(custom_params) THEN Update(objs[id], custom_params[1])
                           ELSE objs[id]
             IN  [raised |-> "", ret |-> id, heap |-> [objs EXCEPT ![id] = params]]

\* get_scenario_params as a function of the catalog and the heap: what it
\* raises, the heap it leaves and the id of the dictionary it returns.
\* default_params.copy() allocates a new object.
get_scenario_params(scenarios, objs, scenario_type, custom_params) ==
    LET i == FindScenario(scenarios, scenario_type, 1)
    IN  IF i = 0
        THEN [raised |-> "ValueError", ret |-> 0, heap |-> objs]
        ELSE LET copy == objs[scenarios[i].default_params]
                 params == IF Truthy(custom_params) THEN Update(copy, custom_params[1]) ELSE copy
             IN  [raised |-> "", ret |-> Len(objs) + 1, heap |-> Append(objs, params)]

\* get_default_scenarios: one entry per definition, whose "params" is the
\* definition's own default_params object (a reference, not a copy)
get_default_scenarios(scenarios) ==
    [i \in 1..Len(scenarios) |->
        [type |-> scenarios[i].type, name |-> scenarios[i].name,
         params |-> scenarios[i].default_params]]

\* ------------------------------------------------------------------------
\* Inputs of the model
\* ------------------------------------------------------------------------
Incomes == {R(0), R(5000)}
Funds == {R(0), R(500), R(3500), R(10000)}
Essentials == {R(0), R(1000), R(2000)}
Discretionaries == {R(0), R(1000)}
Horizons == 1..MaxHorizon

\* "baseline" is the no-shock kind of the tests; it is not in the catalog.
Kinds == {ScenarioType[i] : i \in 1..Len(ScenarioType)} \cup {"baseline"}

ParamChoices ==
    {InitialHeap[i] : i \in 1..Len(InitialHeap)}
    \cup { EmptyDict,
           ("start_month" :> R(3)) @@ ("income_multiplier" :> R(0)),
           ("start_month" :> R(2)) @@ ("increase_percent" :> Frac(1, 2)),
           ("month" :> R(2)) @@ ("amount" :> R(12000)),
           ("month" :> R(2)) @@ ("amount" :> R(-5000)),
           ("monthly_increase_rate" :> R(1)),
           ("monthly_increase_rate" :> R(0)) @@ ("start_month" :> R(2)),
           ("start_month" :> R(1)) @@ ("income_multiplier" :> R(0))
               @@ ("month" :> R(1)) @@ ("amount" :> R(1500)) }

\* Baseline runways a caller may pass to calculate_levers besides the one
\* simulate returned.
OtherBaseRunways == {R(0)}

\* Arguments of the registry calls
RequestedKinds == Kinds \cup {"unknown"}
CustomParams ==
    { << >>,
      << EmptyDict >>,
      << ("start_month" :> R(3)) >>,
      << ("income_multiplier" :> Frac(1, 2)) @@ ("extra" :> R(7)) >> }
WriteKeys == {"start_month", "extra"}
WriteValues == {R(9)}

\* Arguments of calculate_risk_level: runways in steps of a quarter month,
\* and the value 5.999 just below the upper threshold
RiskRunways == {Frac(k, 4) : k \in 0..(4 * MaxRunway)} \cup {Frac(5999, 1000)}
MonthlyExpenses == {R(0), R(3000), R(10000)}

\* ------------------------------------------------------------------------
\* State
\* ------------------------------------------------------------------------
VARIABLES
    DEFAULT_SCENARIOS,  \* the catalog: definitions whose default_params is a heap id
    heap,               \* the dictionaries: heap[id] is the content of object id
    resolved,           \* ids the caller got from get_scenario_params
    listed,             \* ids the caller got in the "params" of get_default_scenarios
    writes,             \* the caller's modifications so far: via which reference, of which id
    call,               \* the last registry call and its outcome
    sim_input,          \* SimulationInput
    scenario_type,      \* scenario_type passed to simulate and calculate_levers
    scenario_params,    \* scenario_params passed to simulate and calculate_levers
    sim_output,         \* << >> or <<SimulationOutput>> once simulate has returned
    base_runway,        \* << >> or <<base_runway>> passed to calculate_levers
    top_levers,         \* << >> or <<outcome>> once calculate_levers has returned
    risk_args,          \* the arguments of calculate_risk_level
    risk_level          \* "" or what calculate_risk_level returned

registry_vars == <<DEFAULT_SCENARIOS, heap, resolved, listed, writes, call>>
sim_vars == <<sim_input, scenario_type, scenario_params, sim_output, base_runway, top_levers>>
risk_vars == <<risk_args, risk_level>>
vars == <<DEFAULT_SCENARIOS, heap, resolved, listed, writes, call,
          sim_input, scenario_type, scenario_params, sim_output, base_runway, top_levers,
          risk_args, risk_level>>

RegistryInit ==
    /\ DEFAULT_SCENARIOS = InitialScenarios
    /\ heap = InitialHeap
    /\ resolved = {}
    /\ listed = {}
    /\ writes = << >>
    /\ call = [op |-> "none"]

\* The simulated inflation rates are whole numbers: the powers of the
\* default rate 0.05/12 = 1/240 leave the range of the checker's integers,
\* so inflation_spike is simulated with an explicit rate only.
SimInputOk(inp, kind, params) ==
    kind = "inflation_spike"
        => Get(params, "monthly_increase_rate", Frac(5, 1200)) # Frac(5, 1200)

SimInit ==
    /\ sim_input \in [monthly_income_takehome : Incomes,
                      emergency_fund_balance : Funds,
                      essential_total : Essentials,
                      discretionary_total : Discretionaries,
                      horizon_months : Horizons]
    /\ scenario_type \in Kinds
    /\ scenario_params \in ParamChoices
    /\ SimInputOk(sim_input, scenario_type, scenario_params)
    /\ sim_output = << >>
    /\ base_runway = << >>
    /\ top_levers = << >>

\* ------------------------------------------------------------------------
\* Simulation and levers: the caller runs simulate, then calculate_levers
\* ------------------------------------------------------------------------
Simulate ==
    /\ sim_output = << >>
    /\ sim_output' = << simulate(sim_input, scenario_type, scenario_params) >>
    /\ UNCHANGED <<sim_input, scenario_type, scenario_params, base_runway, top_levers>>
    /\ UNCHANGED registry_vars
    /\ UNCHANGED risk_vars

CalculateLevers ==
    /\ sim_output # << >>
    /\ top_levers = << >>
    /\ \E b \in {sim_output[1].runway_months} \cup OtherBaseRunways :
          /\ base_runway' = <<b>>
          /\ top_levers' = << calculate_levers(sim_input, scenario_type, scenario_params, b) >>
    /\ UNCHANGED <<sim_input, scenario_type, scenario_params, sim_output>>
    /\ UNCHANGED registry_vars
    /\ UNCHANGED risk_vars

\* calculate_risk_level has not been called
RiskIdle ==
    /\ risk_args = [runway_months |-> R(0), monthly_expenses |-> R(0)]
    /\ risk_level = ""

Init == RegistryInit /\ SimInit /\ RiskIdle

Next == Simulate \/ CalculateLevers

Spec == Init /\ [][Next]_vars

\* ------------------------------------------------------------------------
\* Registry calls and the caller's use of what they return
\* ------------------------------------------------------------------------

\* get_scenario_params(scenario_type, custom_params): raises ValueError, or
\* returns a dictionary.  As in the loop of run_simulation, the caller
\* assigns the result to the variable that held its previous result, so it
\* holds one resolved dictionary at a time; the previous one is garbage and
\* its place in the heap is free when the call returns.
GetScenarioParams(kind, custom_params) ==
    LET catalog_objs == SubSeq(heap, 1, Len(InitialHeap))
        held == SubSeq(heap, Len(InitialHeap) + 1, Len(heap))
        r == get_scenario_params(DEFAULT_SCENARIOS, catalog_objs, kind, custom_params)
    IN  /\ heap' = IF r.raised = "" THEN r.heap ELSE r.heap \o held
        /\ resolved' = IF r.raised = "" THEN {r.ret} ELSE resolved
        /\ call' = [op |-> "get_scenario_params", scenario_type |-> kind,
                    custom_params |-> custom_params, raised |-> r.raised, ret |-> r.ret]
        /\ UNCHANGED <<DEFAULT_SCENARIOS, listed, writes>>
        /\ UNCHANGED sim_vars
        /\ UNCHANGED risk_vars

\* get_default_scenarios(): the caller keeps the "params" references.
GetDefaultScenarios ==
    LET ret == get_default_scenarios(DEFAULT_SCENARIOS)
    IN  /\ listed' = listed \cup {ret[i].params : i \in 1..Len(ret)}
        /\ call' = [op |-> "get_default_scenarios", scenario_type |-> "",
                    custom_params |-> << >>, raised |-> "", ret |-> ret]
        /\ UNCHANGED <<DEFAULT_SCENARIOS, heap, resolved, writes>>
        /\ UNCHANGED sim_vars
        /\ UNCHANGED risk_vars

\* The caller assigns d[key] = value in a dictionary it holds a reference
\* to; via tells which call the reference came from.
CallerWrite(via, id, key, value) ==
    /\ Len(writes) < MaxWrites
    /\ id \in (IF via = "resolved" THEN resolved ELSE listed)
    /\ heap' = [heap EXCEPT ![id] = Update(@, key :> value)]
    /\ writes' = Append(writes, [via |-> via, id |-> id, key |-> key])
    /\ call' = [op |-> "write", scenario_type |-> "", custom_params |-> << >>,
                raised |-> "", ret |-> id]
    /\ UNCHANGED <<DEFAULT_SCENARIOS, resolved, listed>>
    /\ UNCHANGED sim_vars
    /\ UNCHANGED risk_vars

RegistrySimInit ==
    /\ sim_input = [monthly_income_takehome |-> R(5000), emergency_fund_balance |-> R(10000),
                    essential_total |-> R(2000), discretionary_total |-> R(1000),
                    horizon_months |-> 1]
    /\ scenario_type = "baseline"
    /\ scenario_params = EmptyDict
    /\ sim_output = << >>
    /\ base_runway = << >>
    /\ top_levers = << >>

RegistryNext ==
    \/ \E kind \in RequestedKinds, custom_params \in CustomParams :
          GetScenarioParams(kind, custom_params)
    \/ GetDefaultScenarios
    \/ \E via \in {"resolved", "listed"}, id \in 1..(Len(InitialHeap) + 1),
          key \in WriteKeys, value \in WriteValues :
          CallerWrite(via, id, key, value)

RegistryStart == RegistryInit /\ RegistrySimInit /\ RiskIdle

RegistrySpec == RegistryStart /\ [][RegistryNext]_vars

\* ------------------------------------------------------------------------
\* Risk classification: calculate_risk_level applied to its arguments
\* ------------------------------------------------------------------------
RiskInit ==
    /\ risk_args \in [runway_months : RiskRunways, monthly_expenses : MonthlyExpenses]
    /\ risk_level = ""

CalculateRiskLevel ==
    /\ risk_level = ""
    /\ risk_level' = calculate_risk_level(risk_args.runway_months, risk_args.monthly_expenses)
    /\ UNCHANGED risk_args
    /\ UNCHANGED registry_vars
    /\ UNCHANGED sim_vars

RiskStart == RegistryInit /\ RegistrySimInit /\ RiskInit

RiskNext == CalculateRiskLevel

RiskSpec == RiskStart /\ [][RiskNext]_vars

\* ------------------------------------------------------------------------
\* Properties
\* ------------------------------------------------------------------------
Simulated == sim_output # << >>
out == sim_output[1]
H == sim_input.horizon_months
LeversReturned == top_levers # << >>

\* The per-month quantities of the active scenario
income(m) == _calculate_income(sim_input, m, scenario_type, scenario_params)
expenses(m) == _calculate_expenses(sim_input, m, scenario_type, scenario_params)
shock(m) == _calculate_one_time_shock(m, scenario_type, scenario_params)

\* C1: simulate returns a balance_series of length horizon + 1 that starts
\* at emergency_fund_balance and follows, month by month,
\* balance[i+1] = balance[i] + income(i+1) - expenses(i+1) - shock(i+1);
\* min_balance is the minimum of the series and ending_balance its last
\* element.
C1_BalanceSeries ==
    Simulated =>
        /\ Len(out.balance_series) = H + 1
        /\ At(out.balance_series, 0) = sim_input.emergency_fund_balance
        /\ \A i \in 0..(H - 1) :
              At(out.balance_series, i + 1) =
                  RSub(RSub(RAdd(At(out.balance_series, i), income(i + 1)), expenses(i + 1)),
                       shock(i + 1))
        /\ \A i \in 0..H : RLe(out.min_balance, At(out.balance_series, i))
        /\ \E i \in 0..H : out.min_balance = At(out.balance_series, i)
        /\ out.ending_balance = At(out.balance_series, H)

\* A one-time emergency was charged in a month after the first and the
\* minimum lies strictly inside the series.
C1_Witness ==
    /\ Simulated
    /\ scenario_type = "one_time_emergency"
    /\ H >= 3
    /\ shock(2) = R(12000)
    /\ out.min_balance = At(out.balance_series, 2)
    /\ RLt(out.min_balance, out.ending_balance)
    /\ RLt(out.min_balance, At(out.balance_series, 0))

Crossing(series, i) == RLe(R(0), At(series, i)) /\ RLt(At(series, i + 1), R(0))

\* C2: runway_months is i + balance[i] / (balance[i] - balance[i+1]) for
\* the smallest i with balance[i] >= 0 and balance[i+1] < 0, also when the
\* balance recovers and crosses below zero again later.
C2_FirstCrossing ==
    Simulated =>
        \A i \in 0..(H - 1) :
            (Crossing(out.balance_series, i)
                /\ \A j \in 0..(i - 1) : ~Crossing(out.balance_series, j))
            => out.runway_months =
                  RAdd(R(i), RDiv(At(out.balance_series, i),
                                  RSub(At(out.balance_series, i), At(out.balance_series, i + 1))))

\* The balance crosses below zero, recovers, and crosses again.
C2_Witness ==
    /\ Simulated
    /\ \E i \in 0..(H - 1), j \in 0..(H - 1) :
          /\ i < j
          /\ Crossing(out.balance_series, i)
          /\ Crossing(out.balance_series, j)
          /\ out.runway_months # R(0)
          /\ RLt(out.runway_months, R(i + 1))

NegativeMonths == {m \in 1..H : RLt(At(out.balance_series, m), R(0))}

\* C3: breach_month is the smallest month with a negative balance, and is
\* None exactly when no month has a negative balance.
C3_BreachMonth ==
    Simulated =>
        IF NegativeMonths = {}
        THEN out.breach_month = None
        ELSE /\ out.breach_month \in NegativeMonths
             /\ \A m \in NegativeMonths : out.breach_month <= m

\* Two months with a negative balance, with a non-negative month between.
C3_Witness ==
    /\ Simulated
    /\ \E m1 \in NegativeMonths, m2 \in NegativeMonths :
          /\ m1 + 1 < m2
          /\ (m1 + 1) \notin NegativeMonths
          /\ out.breach_month = m1

levers == top_levers[1].levers

\* C4: calculate_levers returns at most 3 entries, in non-increasing order
\* of delta_months, each with delta_months strictly greater than 0.1.
C4_LeverRanking ==
    LeversReturned =>
        /\ Len(levers) <= 3
        /\ \A i \in 1..(Len(levers) - 1) : RLe(levers[i + 1].delta_months, levers[i].delta_months)
        /\ \A i \in 1..Len(levers) : RLt(Frac(1, 10), levers[i].delta_months)

\* C4 (amended): calculate_levers returns at most 3 entries, in
\* non-increasing order of delta_months, each with delta_months at least
\* 0.1: the field is the difference, which exceeds 0.1, rounded to two
\* decimals.
C4_LeverRankingRounded ==
    LeversReturned =>
        /\ Len(levers) <= 3
        /\ \A i \in 1..(Len(levers) - 1) : RLe(levers[i + 1].delta_months, levers[i].delta_months)
        /\ \A i \in 1..Len(levers) : RLe(Frac(1, 10), levers[i].delta_months)

\* The baseline runway is the one simulate returned, a lever generated
\* late ranks first, and a lever's rounded delta is exactly 0.1.
C4_Witness ==
    /\ LeversReturned
    /\ Simulated
    /\ base_runway = <<out.runway_months>>
    /\ Len(levers) >= 2
    /\ levers[1].impact_category = "emergency_fund"
    /\ \E i \in 1..Len(levers) : levers[i].delta_months = Frac(1, 10)

\* C5: for well-formed input, simulate and calculate_levers both return.
C5_Total ==
    LeversReturned => top_levers[1].raised = ""

CatalogKinds == {ScenarioType[i] : i \in 1..Len(ScenarioType)}

\* The default_params object of the catalog entry of a kind
DefaultId(kind) == DEFAULT_SCENARIOS[FindScenario(DEFAULT_SCENARIOS, kind, 1)].default_params

\* The overrides of a call: the empty dictionary for None
Overrides(custom_params) == IF custom_params = << >> THEN EmptyDict ELSE custom_params[1]

\* C6: get_scenario_params raises ValueError for every kind outside the
\* six catalog kinds ("baseline" included), with or without overrides, and
\* returns for each catalog kind; a call that raises leaves the catalog,
\* the stored dictionaries and the caller's references unchanged.
C6_UnknownScenario ==
    [][ call'.op = "get_scenario_params" =>
          /\ (call'.scenario_type \notin CatalogKinds) <=> (call'.raised = "ValueError")
          /\ (call'.scenario_type \in CatalogKinds) <=> (call'.raised = "")
          /\ call'.raised = "ValueError" =>
                /\ DEFAULT_SCENARIOS' = DEFAULT_SCENARIOS
                /\ heap' = heap
                /\ resolved' = resolved ]_vars

\* "baseline" was requested with overrides after an earlier call had
\* succeeded, and the call raised.
C6_Witness ==
    /\ call.op = "get_scenario_params"
    /\ call.scenario_type = "baseline"
    /\ Truthy(call.custom_params)
    /\ call.raised = "ValueError"
    /\ resolved # {}

\* C7: a successful get_scenario_params(k, o) returns a dictionary whose
\* keys are the default keys of k together with the keys of o, where each
\* key of o carries o's value and every other key carries the value stored
\* in k's default_params; with None or {} the result equals the defaults.
C7_Merge ==
    [][ (call'.op = "get_scenario_params" /\ call'.raised = "") =>
          LET o == Overrides(call'.custom_params)
              d == heap[DefaultId(call'.scenario_type)]
              params == heap'[call'.ret]
          IN  /\ DOMAIN params = (DOMAIN d) \cup (DOMAIN o)
              /\ \A k \in DOMAIN o : params[k] = o[k]
              /\ \A k \in (DOMAIN d) \ (DOMAIN o) : params[k] = d[k]
              /\ (DOMAIN o = {}) => params = d ]_vars

\* The overrides replaced a default key and added a key the kind's schema
\* does not know.
C7_Witness ==
    /\ call.op = "get_scenario_params"
    /\ call.raised = ""
    /\ call.scenario_type = "income_cut_20"
    /\ Truthy(call.custom_params)
    /\ DOMAIN heap[call.ret] = {"start_month", "income_multiplier", "extra"}
    /\ heap[call.ret]["income_multiplier"] = Frac(1, 2)
    /\ heap[call.ret]["start_month"] = R(1)

OnlyResolvedWritten == \A i \in 1..Len(writes) : writes[i].via = "resolved"

\* C8: as long as the caller only modifies dictionaries that
\* get_scenario_params returned, every default_params of the catalog keeps
\* its original content, and get_scenario_params(k) without overrides
\* returns the original defaults of k.
C8_DefaultsUnchanged ==
    OnlyResolvedWritten =>
        /\ DEFAULT_SCENARIOS = InitialScenarios
        /\ \A i \in 1..Len(InitialHeap) : heap[i] = InitialHeap[i]
        /\ (call.op = "get_scenario_params" /\ call.raised = "" /\ ~Truthy(call.custom_params))
              => heap[call.ret] = InitialHeap[DefaultId(call.scenario_type)]

\* The caller modified a dictionary it had resolved, and a later call
\* without overrides returned the defaults.
C8_Witness ==
    /\ OnlyResolvedWritten
    /\ Len(writes) >= 1
    /\ writes[1].key = "start_month"
    /\ call.op = "get_scenario_params"
    /\ call.raised = ""
    /\ ~Truthy(call.custom_params)
    /\ call.scenario_type \in {"job_loss", "rent_increase"}
    /\ heap[call.ret]["start_month"] = R(1)

total_expenses == RAdd(sim_input.essential_total, sim_input.discretionary_total)

\* C9: under the no-shock kind, when monthly income exceeds essential plus
\* discretionary expenses and the fund is not negative, runway_months is
\* the horizon, breach_month is None and ending_balance is above the
\* starting balance.
C9_NoShockGrowth ==
    (Simulated
        /\ scenario_type = "baseline"
        /\ RLt(total_expenses, sim_input.monthly_income_takehome)
        /\ RLe(R(0), sim_input.emergency_fund_balance))
    => /\ out.runway_months = R(H)
       /\ out.breach_month = None
       /\ RLt(At(out.balance_series, 0), out.ending_balance)

C9_Witness ==
    /\ Simulated
    /\ scenario_type = "baseline"
    /\ sim_input.monthly_income_takehome = R(5000)
    /\ total_expenses = R(3000)
    /\ sim_input.emergency_fund_balance = R(10000)
    /\ H = MaxHorizon
    /\ out.ending_balance = R(10000 + 2000 * MaxHorizon)

no_shock == simulate(sim_input, "baseline", EmptyDict)

shock_month == Get(scenario_params, "month", R(1))
shock_amount == Get(scenario_params, "amount", R(1500))

\* C11: a one_time_emergency of amount A in month k, 1 <= k <= horizon,
\* makes element k of balance_series exactly A lower than element k of the
\* no-shock trajectory, and every other element equals the no-shock
\* element.
C11_ShockIsolated ==
    (Simulated /\ scenario_type = "one_time_emergency")
    => \A k \in 1..H :
          shock_month = R(k)
          => /\ At(out.balance_series, k) = RSub(At(no_shock.balance_series, k), shock_amount)
             /\ \A j \in (0..H) \ {k} :
                   At(out.balance_series, j) = At(no_shock.balance_series, j)

\* C11 (amended): the elements before month k equal the no-shock elements,
\* and element k and every later element are exactly A lower than the
\* no-shock elements: the balance is cumulative, so the reduction is
\* carried to the end of the series.
C11_ShockCarried ==
    (Simulated /\ scenario_type = "one_time_emergency")
    => \A k \in 1..H :
          shock_month = R(k)
          => /\ \A j \in 0..(k - 1) :
                   At(out.balance_series, j) = At(no_shock.balance_series, j)
             /\ \A j \in k..H :
                   At(out.balance_series, j) = RSub(At(no_shock.balance_series, j), shock_amount)

\* An emergency of 12000 in month 2 of at least 3: month 1 is untouched,
\* months 2 and 3 are both 12000 lower.
C11_Witness ==
    /\ Simulated
    /\ scenario_type = "one_time_emergency"
    /\ H >= 3
    /\ shock_month = R(2)
    /\ shock_amount = R(12000)
    /\ At(out.balance_series, 1) = At(no_shock.balance_series, 1)
    /\ At(out.balance_series, 3) = RSub(At(no_shock.balance_series, 3), R(12000))

RiskReturned == risk_level # ""

candidate_runway(i) ==
    simulate(ModifiedInput(sim_input, levers[i].label), scenario_type,
             scenario_params).runway_months

\* x is a number of two decimals at most 0.005 away from y
IsRounded2(x, y) ==
    /\ RMul(x, R(100))[2] = 1
    /\ RLe(RSub(x, y), Frac(1, 200))
    /\ RLe(RSub(y, x), Frac(1, 200))

\* C13: every returned lever has new_runway_months equal to the runway
\* simulate returns for the candidate's modified state, and delta_months
\* equal to new_runway_months minus the baseline runway, without rounding.
C13_Unrounded ==
    LeversReturned =>
        \A i \in 1..Len(levers) :
            /\ levers[i].new_runway_months = candidate_runway(i)
            /\ levers[i].delta_months = RSub(levers[i].new_runway_months, base_runway[1])

\* C13 (amended): every returned lever has new_runway_months equal to the
\* candidate's runway rounded to two decimals, and delta_months equal to
\* the candidate's runway minus the baseline runway, rounded to two
\* decimals.
C13_Rounded ==
    LeversReturned =>
        \A i \in 1..Len(levers) :
            \E r \in {candidate_runway(i)} :
                /\ IsRounded2(levers[i].new_runway_months, r)
                /\ IsRounded2(levers[i].delta_months, RSub(r, base_runway[1]))

\* The baseline is the runway simulate returned, and a returned lever's two
\* fields differ from the unrounded runway and the unrounded difference.
C13_Witness ==
    /\ LeversReturned
    /\ Simulated
    /\ base_runway = <<out.runway_months>>
    /\ \E i \in 1..Len(levers) :
          /\ levers[i].new_runway_months # candidate_runway(i)
          /\ levers[i].delta_months # RSub(candidate_runway(i), base_runway[1])
          /\ levers[i].delta_months # RSub(levers[i].new_runway_months, base_runway[1])

\* C15: a one_time_emergency of amount A > 0 in month 1 leaves the balance
\* after month 1 strictly below the starting balance minus A.
C15_EmergencyBelowStart ==
    (Simulated
        /\ scenario_type = "one_time_emergency"
        /\ shock_month = R(1)
        /\ RLt(R(0), shock_amount))
    => RLt(At(out.balance_series, 1), RSub(At(out.balance_series, 0), shock_amount))

\* C16: under income_cut_40 with income_multiplier 0.6 from start_month 1,
\* when the reduced income does not exceed essential plus discretionary
\* expenses and the fund is positive, runway_months is positive and
\* ending_balance is strictly below the starting balance.
C16_IncomeCutDrains ==
    (Simulated
        /\ scenario_type = "income_cut_40"
        /\ Get(scenario_params, "income_multiplier", R(1)) = Frac(6, 10)
        /\ Get(scenario_params, "start_month", R(1)) = R(1)
        /\ RLe(RMul(sim_input.monthly_income_takehome, Frac(6, 10)), total_expenses)
        /\ RLt(R(0), sim_input.emergency_fund_balance))
    => /\ RLt(R(0), out.runway_months)
       /\ RLt(out.ending_balance, At(out.balance_series, 0))

received_income(m) ==
    RAdd(RAdd(RSub(At(out.balance_series, m), At(out.balance_series, m - 1)), expenses(m)),
         shock(m))

\* C18: the income of month m is monthly_income * income_multiplier when
\* the kind is job_loss, income_cut_20 or income_cut_40 and m >= start_month,
\* and the unmodified monthly_income otherwise: before start_month, and in
\* every month of every other kind, whatever keys the parameters carry.
\* (A missing start_month counts as 1, a missing income_multiplier as 1.)
C18_IncomeRule ==
    Simulated =>
        \A m \in 1..H :
            received_income(m) =
                IF scenario_type \in {"job_loss", "income_cut_20", "income_cut_40"}
                   /\ ~RLt(R(m), Get(scenario_params, "start_month", R(1)))
                THEN RMul(sim_input.monthly_income_takehome,
                          Get(scenario_params, "income_multiplier", R(1)))
                ELSE sim_input.monthly_income_takehome

\* A one_time_emergency whose parameters also carry start_month 1 and
\* income_multiplier 0: the full income of 5000 is received in month 1.
C18_Witness ==
    /\ Simulated
    /\ scenario_type = "one_time_emergency"
    /\ "income_multiplier" \in DOMAIN scenario_params
    /\ scenario_params["income_multiplier"] = R(0)
    /\ scenario_params["start_month"] = R(1)
    /\ sim_input.monthly_income_takehome = R(5000)
    /\ received_income(1) = R(5000)

monthly_rate == Get(scenario_params, "monthly_increase_rate", Frac(5, 1200))

\* What the balance of month m was charged: what was taken from the
\* previous balance plus the month's income
charged_expenses(m) ==
    RSub(RAdd(At(out.balance_series, m - 1), income(m)), At(out.balance_series, m))

\* C19: under inflation_spike with monthly rate r, month m is charged
\* essential * (1 + r)^m + discretionary, from the original essential base
\* in every month; hence for r > 0 and essential > 0 every balance from
\* month 1 on is strictly below the no-shock balance.
C19_InflationCompounds ==
    (Simulated /\ scenario_type = "inflation_spike")
    => /\ \A m \in 1..H :
             charged_expenses(m) =
                 RAdd(RMul(sim_input.essential_total, RPow(RAdd(R(1), monthly_rate), m)),
                      sim_input.discretionary_total)
       /\ (RLt(R(0), monthly_rate) /\ RLt(R(0), sim_input.essential_total))
             => \A m \in 1..H :
                   RLt(At(out.balance_series, m), At(no_shock.balance_series, m))

\* Rate 1 on essential 2000 and discretionary 1000: month 3 is charged
\* 2000 * 8 + 1000.
C19_Witness ==
    /\ Simulated
    /\ scenario_type = "inflation_spike"
    /\ monthly_rate = R(1)
    /\ sim_input.essential_total = R(2000)
    /\ sim_input.discretionary_total = R(1000)
    /\ H >= 3
    /\ charged_expenses(3) = R(17000)
    /\ RLt(At(out.balance_series, 1), At(no_shock.balance_series, 1))

\* C20: a returned lever has impact_category income_increase only when the
\* kind is job_loss, income_cut_20 or income_cut_40, and every returned
\* lever's category is expense_reduction, income_increase or
\* emergency_fund.
C20_SideIncomeOnlyForIncomeKinds ==
    LeversReturned =>
        \A i \in 1..Len(levers) :
            /\ levers[i].impact_category \in
                  {"expense_reduction", "income_increase", "emergency_fund"}
            /\ levers[i].impact_category = "income_increase"
                  => scenario_type \in {"job_loss", "income_cut_20", "income_cut_40"}

\* Under an income cut the side-income lever is returned, next to a lever
\* of another category.
C20_Witness ==
    /\ LeversReturned
    /\ scenario_type \in {"income_cut_20", "income_cut_40"}
    /\ \E i \in 1..Len(levers), j \in 1..Len(levers) :
          /\ levers[i].impact_category = "income_increase"
          /\ levers[i].label = "Add side income"
          /\ levers[j].impact_category # "income_increase"

\* C21: when the baseline runway passed to calculate_levers is the runway
\* simulate returned for the same state, kind and parameters, that runway
\* equals the horizon, and essential plus discretionary expenses are
\* positive, calculate_levers returns the empty list.
C21_NoLeverAtFullRunway ==
    (LeversReturned
        /\ Simulated
        /\ base_runway = <<out.runway_months>>
        /\ out.runway_months = R(H)
        /\ RLt(R(0), total_expenses))
    => /\ top_levers[1].raised = ""
       /\ levers = << >>

\* The funds never run out, the fund covers less than 3 months of expenses
\* and there is discretionary spending, so that the two discretionary
\* candidates and the emergency-fund candidate are evaluated; none is
\* returned.
C21_Witness ==
    /\ LeversReturned
    /\ Simulated
    /\ base_runway = <<out.runway_months>>
    /\ out.runway_months = R(H)
    /\ sim_input.discretionary_total = R(1000)
    /\ sim_input.essential_total = R(2000)
    /\ sim_input.emergency_fund_balance = R(500)
    /\ scenario_type = "income_cut_20"
    /\ levers = << >>

\* C22: every get_default_scenarios call returns the six catalog kinds in
\* the catalog's order, and whatever the caller writes into the params of
\* an entry it returned, the stored defaults keep their original content,
\* a later get_default_scenarios returns the original params, and a later
\* get_scenario_params returns the original defaults with the overrides.
C22_ListingIsolated ==
    /\ \A i \in 1..Len(InitialHeap) : heap[i] = InitialHeap[i]
    /\ call.op = "get_default_scenarios" =>
          /\ Len(call.ret) = Len(ScenarioType)
          /\ \A i \in 1..Len(call.ret) :
                /\ call.ret[i].type = ScenarioType[i]
                /\ heap[call.ret[i].params] = InitialHeap[i]
    /\ (call.op = "get_scenario_params" /\ call.raised = "") =>
          heap[call.ret] =
              Update(InitialHeap[FindScenario(InitialScenarios, call.scenario_type, 1)],
                     Overrides(call.custom_params))

====
